---------------------------- MODULE Spec2Model ----------------------------
(***************************************************************************)
(* fastapi_jsonrpc: the JSON-RPC 2.0 entrypoint of src/fastapi_jsonrpc.    *)
(* An HTTP call carries a JSON body; EntrypointRoute._entrypoint parses    *)
(* it, runs one _single_req_job per item (through the scheduler when the   *)
(* body holds more than one item), collects the outcomes in input order    *)
(* and builds the payload.                                                 *)
(*                                                                         *)
(* JSON values are tagged records [t |-> type, v |-> value]; a JSON object *)
(* is [t |-> "dict", v |-> record], and a key that is absent from the      *)
(* object is absent from the record's DOMAIN.                              *)
(***************************************************************************)
EXTENDS Integers, Sequences, FiniteSets, TLC

VARIABLES
    routes,      \* Entrypoint.routes: the method routes, in registration order
    scheduler,   \* Entrypoint.scheduler: 0 is None, n > 0 the n-th scheduler
    created,     \* number of schedulers the scheduler factory has returned
    errReq,      \* .req of the module-level MyError instance handlers raise
    body,        \* per call: the HTTP body
    pc,          \* per call: where jsonrpc_app_response / _entrypoint stands
    sched,       \* per call: the local `scheduler` of _entrypoint
    jobs,        \* per call: one record per item of req_list (its coroutine)
    job_list,    \* per call: job_list of _entrypoint, as positions in req_list
    task_idx,    \* per call: position in job_list of the task being awaited
    resp_list,   \* per call: resp_list of _entrypoint
    collected,   \* per call: the item each entry of resp_list came from
    finished,    \* per call: the items in the order their coroutines ended
    response,    \* per call: what jsonrpc_app_response returned
    log,         \* per call: what logger.exception recorded
    dependency_cache, \* per call: dependency_cache of jsonrpc_app_response
    resolver_runs,    \* per call: how often each dependency was called
    background_tasks, \* per call: background_tasks of jsonrpc_app_response,
                      \* each task named by the item whose handler added it
    scope,            \* per call: http_request.scope
    closed,           \* the schedulers whose close() was called
    shutdown_pc       \* where Entrypoint.shutdown stands, and what it closes

vars == <<routes, scheduler, created, errReq, body, pc, sched, jobs,
          job_list, task_idx, resp_list, collected, finished, response, log,
          dependency_cache, resolver_runs, background_tasks, scope, closed,
          shutdown_pc>>

---------------------------------------------------------------------------
(* Bounds of the model.                                                    *)

\* longest batch of a call that runs alone
MaxBatch == 2
\* longest batch when two calls with the same body run side by side
MaxBatchPair == 1

\* most routes the registry holds when methods are added while it serves
MaxRoutes == 6

Calls == {1, 2}

---------------------------------------------------------------------------
(* JSON values.                                                            *)

JNull == [t |-> "null"]
JInt(n) == [t |-> "int", v |-> n]
JStr(s) == [t |-> "str", v |-> s]
JDict(d) == [t |-> "dict", v |-> d]
JList(s) == [t |-> "list", v |-> s]
\* a body json.loads() rejects
NotJson == [t |-> "invalid"]

\* isinstance(x, dict)
IsDict(x) == x.t = "dict"
\* isinstance(x, list)
IsList(x) == x.t = "list"
\* key in x, for a dict x
HasKey(x, key) == key \in DOMAIN x.v
\* x.get(key): None when the key is absent
Get(x, key) == IF HasKey(x, key) THEN x.v[key] ELSE JNull

---------------------------------------------------------------------------
(* Error taxonomy.                                                         *)

ParseErrorCode == -32700
InvalidRequestCode == -32600
MethodNotFoundCode == -32601
InvalidParamsCode == -32602
InternalErrorCode == -32603
MyErrorCode == 5000

CODE(cls) ==
    CASE cls = "ParseError" -> ParseErrorCode
      [] cls = "InvalidRequest" -> InvalidRequestCode
      [] cls = "MethodNotFound" -> MethodNotFoundCode
      [] cls = "InvalidParams" -> InvalidParamsCode
      [] cls = "InternalError" -> InternalErrorCode
      [] cls = "MyError" -> MyErrorCode

MESSAGE(cls) ==
    CASE cls = "ParseError" -> "Parse error"
      [] cls = "InvalidRequest" -> "Invalid Request"
      [] cls = "MethodNotFound" -> "Method not found"
      [] cls = "InvalidParams" -> "Invalid params"
      [] cls = "InternalError" -> "Internal error"
      [] cls = "MyError" -> "My error"

\* data = {} : the default of BaseError.__init__; falsy in get_resp
NoData == <<>>
\* a req that was never bound (BaseError.__init__: req=None)
NoReq == JNull

\* BaseError(data): an instance of class cls
BaseError(cls, data) == [cls |-> cls, data |-> data]

\* one error record of a pydantic ValidationError, or a literal one of the code
Err(loc, type, msg) == [loc |-> loc, type |-> type, msg |-> msg]

\* BaseError.bind_req
bind_req(error, req) == [cls |-> error.cls, data |-> error.data, req |-> req]

\* BaseError.get_resp, of an error whose req is bound (or still None)
get_resp(error) ==
    LET resp_data == error.data
        head == [code |-> CODE(error.cls), message |-> MESSAGE(error.cls)]
        err == IF DOMAIN resp_data # {}
               THEN [code |-> head.code, message |-> head.message,
                     data |-> resp_data]
               ELSE head
    IN [jsonrpc |-> "2.0",
        error |-> err,
        id |-> IF IsDict(error.req) THEN Get(error.req, "id") ELSE JNull]

---------------------------------------------------------------------------
(* Validation bridge.                                                      *)

\* seq[:n] of Python: the whole sequence when it is shorter than n
Prefix(seq, n) == IF Len(seq) <= n THEN seq ELSE SubSeq(seq, 1, n)
\* seq[n:] of Python
Suffix(seq, n) == IF Len(seq) <= n THEN <<>> ELSE SubSeq(seq, n + 1, Len(seq))

\* the first branch of the loop of request_validation_error
IsParamsError(e) ==
    Prefix(e.loc, 3) = <<"body", "__request__", "params">> /\ Len(e.loc) > 3

\* the err['loc'] the loop of request_validation_error leaves in err
StripLoc(e) ==
    IF IsParamsError(e)
    THEN Err(Suffix(e.loc, 3), e.type, e.msg)
    ELSE IF Prefix(e.loc, 2) = <<"body", "__request__">>
         THEN Err(Suffix(e.loc, 2), e.type, e.msg)
         ELSE e

RECURSIVE MapErrors(_, _)
\* the errors of `errors` on side `params` (TRUE: params_errors), stripped
MapErrors(errors, params) ==
    IF errors = <<>> THEN <<>>
    ELSE LET e == Head(errors)
             rest == MapErrors(Tail(errors), params)
         IN IF IsParamsError(e) = params THEN <<StripLoc(e)>> \o rest ELSE rest

\* a mutation of request_validation_error: the params errors are looked at
\* first
request_validation_errorParamsFirst(errors) ==
    LET params_errors == MapErrors(errors, TRUE)
        request_errors == MapErrors(errors, FALSE)
    IN IF params_errors # <<>>
       THEN BaseError("InvalidParams", [errors |-> params_errors])
       ELSE BaseError("InvalidRequest", [errors |-> request_errors])

\* request_validation_error(exc), exc.errors() being `errors`
request_validation_error(errors) ==
    LET params_errors == MapErrors(errors, TRUE)
        request_errors == MapErrors(errors, FALSE)
    IN IF request_errors # <<>>
       THEN BaseError("InvalidRequest", [errors |-> request_errors])
       ELSE BaseError("InvalidParams", [errors |-> params_errors])

\* the fields of JsonRpcRequest
EnvelopeFields == {"jsonrpc", "id", "method", "params"}

RECURSIVE ExtraErrors(_)
\* Config.extra = 'forbid': one error per key that is no field
ExtraErrors(keys) ==
    IF keys = {} THEN <<>>
    ELSE LET k == CHOOSE x \in keys : TRUE
         IN <<Err(<<k>>, "value_error.extra", "extra fields not permitted")>>
            \o ExtraErrors(keys \ {k})

\* the errors of JsonRpcRequest(**req) for a dict req, in field order
EnvelopeErrors(req) ==
    (IF HasKey(req, "jsonrpc") /\ req.v.jsonrpc # JStr("2.0")
     THEN <<Err(<<"jsonrpc">>, "value_error.const", "unexpected value")>>
     ELSE <<>>)
    \o (IF HasKey(req, "id") /\ req.v.id.t \notin {"null", "str", "int"}
        THEN <<Err(<<"id">>, "type_error.str", "str type expected"),
               Err(<<"id">>, "type_error.integer", "value is not a valid integer")>>
        ELSE <<>>)
    \o (IF ~HasKey(req, "method")
        THEN <<Err(<<"method">>, "value_error.missing", "field required")>>
        ELSE IF req.v.method.t # "str"
             THEN <<Err(<<"method">>, "type_error.str", "str type expected")>>
             ELSE <<>>)
    \o (IF ~HasKey(req, "params")
        THEN <<Err(<<"params">>, "value_error.missing", "field required")>>
        ELSE IF req.v.params.t # "dict"
             THEN <<Err(<<"params">>, "type_error.dict", "value is not a valid dict")>>
             ELSE <<>>)
    \o ExtraErrors(DOMAIN req.v \ EnvelopeFields)

---------------------------------------------------------------------------
(* The application: the methods registered on the Entrypoint and their     *)
(* functions.  echo is the method of the source; secure, crash, bad and    *)
(* fail are methods of the same kind whose functions take a query          *)
(* parameter, fail unexpectedly, return a value their result model         *)
(* rejects, and raise MyError() without declaring it.                      *)

RegisteredMethods == <<"echo", "secure", "crash", "bad", "fail">>

\* the route add_method_route builds: its path ends in name, it calls func
Route(name, f) == [name |-> name, func |-> f]

\* errors= of the registration of a function: the error kinds it declares
\* (they go into the OpenAPI responses of the route and nowhere else)
declared_errors(f) == IF f = "echo" THEN {"MyError"} ELSE {}

\* the query string of the modelled HTTP requests: they carry none
QueryString == {}

\* the JSON-RPC params the function of a method requires (is_jsonrpc_param)
ParamNames(name) == IF name \in {"echo", "secure"} THEN <<"data">> ELSE <<>>

\* the query parameters the function of a method requires
QueryNames(name) == IF name = "secure" THEN <<"token">> ELSE <<>>

\* result_model of a method route: the return annotation of its function
result_model(name) == IF name = "bad" THEN "int" ELSE "str"

RECURSIVE MissingErrors(_, _, _)
\* one 'field required' error, under loc prefix, per name that is not in have
MissingErrors(names, have, prefix) ==
    IF names = <<>> THEN <<>>
    ELSE (IF Head(names) \in have THEN <<>>
          ELSE <<Err(prefix \o <<Head(names)>>, "value_error.missing",
                     "field required")>>)
         \o MissingErrors(Tail(names), have, prefix)

\* a mutation of solve_dependencies: the body of the item is not validated
solve_dependenciesQueryOnly(name, req) ==
    MissingErrors(QueryNames(name), QueryString, <<"query">>)

\* the errors of fastapi's solve_dependencies for the dependant of method
\* `name` and body req: the query parameters first, then the body, whose
\* field __request__ is the _Request model of the method
solve_dependencies(name, req) ==
    MissingErrors(QueryNames(name), QueryString, <<"query">>)
    \o MissingErrors(ParamNames(name), DOMAIN req.v.params.v,
                     <<"body", "__request__", "params">>)

\* dependencies= of the Entrypoint: the dependencies of the entrypoint route,
\* shared by the items of a call
EntrypointDependencies == {"get_context"}

\* the dependencies the function of a method declares
\* (dependant.dependencies): the shared one, and one of the method's own
Dependencies(f) ==
    CASE f = "echo" -> {"get_context"}
      [] f \in {"crash", "fail"} -> {"get_context", "get_session"}
      [] OTHER -> {}

\* every dependency of the entrypoint and of its methods
DependencyNames ==
    EntrypointDependencies
        \cup UNION {Dependencies(RegisteredMethods[r]) :
                       r \in DOMAIN RegisteredMethods}

\* dependency_cache before anything is solved: one entry that is no
\* dependency, so that the dict is not empty
NewCache == [none |-> 1]

RECURSIVE SolveSubDependencies(_, _, _)
\* fastapi's solve_dependencies for the dependencies deps: one that is in
\* the cache is taken from it; any other is called (runs counts the calls
\* of each dependency, and the value a call returns is its number) and put
\* into the cache
SolveSubDependencies(deps, cache, runs) ==
    IF deps = {} THEN [cache |-> cache, runs |-> runs]
    ELSE LET d == CHOOSE x \in deps : TRUE
         IN IF d \in DOMAIN cache
            THEN SolveSubDependencies(deps \ {d}, cache, runs)
            ELSE SolveSubDependencies(
                     deps \ {d},
                     [k \in DOMAIN cache \cup {d} |->
                         IF k = d THEN runs[d] + 1 ELSE cache[k]],
                     [runs EXCEPT ![d] = @ + 1])

\* a mutation of ItemCache: every item starts from a cache of its own
ItemCacheNew(cache) == NewCache

\* dependency_cache.copy() of jsonrpc_app: the cache an item solves with
ItemCache(cache) == [k \in DOMAIN cache |-> cache[k]]

\* what self.func(**params) does: returns a value, raises a MyError with
\* some data, or raises some other exception (whose message is cause)
func(name, params, cause) ==
    CASE name = "echo" ->
            IF params.data = JStr("error")
            THEN [kind |-> "raise", exc |-> "MyError",
                  data |-> [details |-> "error"]]
            ELSE [kind |-> "return", value |-> params.data]
      [] name = "fail" -> [kind |-> "raise", exc |-> "MyError", data |-> NoData]
      [] name = "secure" -> [kind |-> "return", value |-> params.data]
      [] name = "crash" -> [kind |-> "raise", exc |-> "Exception", msg |-> cause]
      [] name = "bad" -> [kind |-> "return", value |-> JStr("oops")]

\* the messages an unexpected exception of a handler may carry
Causes == {"disk full", "division by zero"}

\* the number a string of digits stands for
StrToInt(s) == CASE s = "1" -> 1 [] s = "2" -> 2 [] OTHER -> 0

\* a mutation of IdField: the int member of the Union is tried first
IdFieldIntFirst(v) ==
    IF v.t = "str" /\ v.v \in {"1", "2"} THEN JInt(StrToInt(v.v)) ELSE v

\* id: Union[StrictStr, int] = None, as _Response validates it: StrictStr
\* takes a str as it is, then int takes an int as it is; None is the default
IdField(v) ==
    CASE v.t = "str" -> JStr(v.v)
      [] v.t = "int" -> JInt(v.v)
      [] OTHER -> JNull

\* serialize_response(field=_Response, response=resp): the validated resp,
\* or a ValidationError when result does not fit the result model
serialize_response(name, resp) ==
    IF resp.result.t = result_model(name)
    THEN [ok |-> TRUE,
          value |-> [jsonrpc |-> "2.0", id |-> IdField(resp.id),
                     result |-> resp.result]]
    ELSE [ok |-> FALSE]

---------------------------------------------------------------------------
(* The items a body is made of.                                            *)

Request(method, params) ==
    [jsonrpc |-> JStr("2.0"), method |-> JStr(method), params |-> JDict(params)]
RequestId(method, params, id) ==
    [jsonrpc |-> JStr("2.0"), method |-> JStr(method), params |-> JDict(params),
     id |-> id]

Items ==
    { JInt(1),
      JDict(RequestId("echo", [data |-> JStr("a")], JInt(1))),
      JDict(RequestId("echo", [data |-> JStr("a")], JStr("1"))),
      JDict(Request("echo", [data |-> JStr("a")])),
      JDict(Request("echo", <<>>)),
      JDict(RequestId("echo", [data |-> JStr("error")], JInt(2))),
      JDict(Request("echo", [data |-> JStr("error")])),
      JDict(RequestId("nope", <<>>, JInt(2))),
      JDict([jsonrpc |-> JStr("2.0"), method |-> JStr("nope"),
             params |-> JDict(<<>>), id |-> JNull, foo |-> JInt(1)]),
      JDict(RequestId("secure", <<>>, JInt(1))),
      JDict(RequestId("crash", <<>>, JStr("2"))),
      JDict(Request("crash", <<>>)),
      JDict([jsonrpc |-> JStr("2.0"), method |-> JStr("echo"),
             params |-> JInt(1)]),
      JDict(Request("bad", <<>>)),
      JDict(RequestId("fail", <<>>, JInt(1))) }

RECURSIVE Batches(_)
\* the sequences of at most n items
Batches(n) ==
    IF n = 0 THEN {<<>>}
    ELSE LET shorter == Batches(n - 1)
         IN shorter \cup {Append(s, it) : s \in shorter, it \in Items}

\* the bodies whose arrays hold at most n items
Bodies(n) == {NotJson} \cup Items \cup {JList(s) : s \in Batches(n)}

---------------------------------------------------------------------------
(* The state of a call.                                                    *)

\* the path of the entrypoint route, self.path of _single_req_job
EntrypointPath == <<"api", "v1", "jsonrpc">>

\* req_list of _entrypoint
req_list(c) == IF IsList(body[c]) THEN body[c].v ELSE <<body[c]>>

\* the coroutine _single_req_job(..., req) before it has run
\* (route: the route it matched; called: self.func was called; ended: how
\* self.func ended; out: how the coroutine ended; scheduler: the scheduler
\* it was spawned on, 0 for none; values: the dependencies solved for it;
\* cache: its copy of dependency_cache after they were solved; path: the
\* path it set in its copy of the scope; seen: the background tasks its
\* handler found in the queue it was given)
NewJob ==
    [st |-> "new", route |-> 0, called |-> FALSE, ended |-> [kind |-> "none"],
     out |-> [kind |-> "none"], scheduler |-> 0, values |-> <<>>,
     cache |-> <<>>, path |-> <<>>, seen |-> <<>>]

\* a coroutine that returned resp / raised a BaseError / raised NoContent /
\* raised an exception that is none of both
Returned(resp) == [kind |-> "return", resp |-> resp]
RaisedError(error) == [kind |-> "BaseError", error |-> error]
RaisedNoContent == [kind |-> "NoContent"]
RaisedOther(exc) == [kind |-> "Exception", exc |-> exc]

NoResponse == [status |-> "none"]
\* response_class(content=content), content being a JSON object or array /
\* Response() without content / the 500 of the server for an exception
\* that leaves jsonrpc_app_response
Content(content) == [status |-> "Content", content |-> content]
NoContentResponse == [status |-> "NoContent"]
ServerError == [status |-> "ServerError"]

\* the background of the response of call c: jsonrpc_app_response gives
\* background_tasks to the response it builds, with content and without;
\* the 500 for an exception that leaves it is not built by it
background(c) ==
    IF response[c].status \in {"Content", "NoContent"}
    THEN background_tasks[c]
    ELSE <<>>

Init ==
    /\ routes = [r \in DOMAIN RegisteredMethods |->
                    Route(RegisteredMethods[r], RegisteredMethods[r])]
    /\ scheduler = 0
    /\ created = 0
    /\ errReq = NoReq
    /\ \/ \E b \in Bodies(MaxBatch) :
            /\ body = [c \in Calls |-> IF c = 1 THEN b ELSE NotJson]
            /\ pc = [c \in Calls |-> IF c = 1 THEN "received" ELSE "absent"]
       \/ \E b \in Bodies(MaxBatchPair) :
            /\ body = [c \in Calls |-> b]
            /\ pc = [c \in Calls |-> "received"]
    /\ sched = [c \in Calls |-> 0]
    /\ dependency_cache = [c \in Calls |-> <<>>]
    /\ resolver_runs = [c \in Calls |-> [d \in DependencyNames |-> 0]]
    /\ background_tasks = [c \in Calls |-> <<>>]
    /\ scope = [c \in Calls |-> [path |-> EntrypointPath]]
    /\ closed = {}
    /\ shutdown_pc = [st |-> "idle", scheduler |-> 0]
    /\ jobs = [c \in Calls |-> <<>>]
    /\ job_list = [c \in Calls |-> <<>>]
    /\ task_idx = [c \in Calls |-> 1]
    /\ resp_list = [c \in Calls |-> <<>>]
    /\ collected = [c \in Calls |-> <<>>]
    /\ finished = [c \in Calls |-> <<>>]
    /\ response = [c \in Calls |-> NoResponse]
    /\ log = [c \in Calls |-> {}]

---------------------------------------------------------------------------
(* EntrypointRoute._entrypoint, up to the dispatch.                        *)

\* the literal error of an empty array
EmptyArrayError ==
    BaseError("InvalidRequest",
              [errors |-> <<Err(<<>>, "value_error.empty",
                                "rpc call with an empty array")>>])

\* Entrypoint.get_error_resp(error), for an error whose req was never bound
get_error_resp(error) == get_resp(bind_req(error, NoReq))

\* a mutation of ShortCircuit: a body that is no JSON is passed on as an item
ShortCircuitNoParseError(b) ==
    IF IsList(b) /\ b.v = <<>>
    THEN Returned(get_error_resp(EmptyArrayError))
    ELSE [kind |-> "dispatch"]

\* a mutation of ShortCircuit: an empty array is dispatched like any array
ShortCircuitNoEmptyCheck(b) ==
    IF b.t = "invalid"
    THEN Returned(get_error_resp(BaseError("ParseError", NoData)))
    ELSE [kind |-> "dispatch"]

\* the head of _entrypoint: what it returns at once for a body that is no
\* JSON and for an empty array; any other body is dispatched
ShortCircuit(b) ==
    IF b.t = "invalid"
    THEN Returned(get_error_resp(BaseError("ParseError", NoData)))
    ELSE IF IsList(b) /\ b.v = <<>>
    THEN Returned(get_error_resp(EmptyArrayError))
    ELSE [kind |-> "dispatch"]

\* jsonrpc_app_response solves the shared dependencies into a new
\* dependency_cache and calls _entrypoint, which reads the body and either
\* returns at once or goes on to get_scheduler with req_list
ReadBody(c) ==
    /\ pc[c] = "received"
    /\ LET solved == SolveSubDependencies(EntrypointDependencies, NewCache,
                                          resolver_runs[c])
       IN /\ dependency_cache' = [dependency_cache EXCEPT ![c] = solved.cache]
          /\ resolver_runs' = [resolver_runs EXCEPT ![c] = solved.runs]
    /\ LET r == ShortCircuit(body[c])
       IN IF r.kind = "return"
          THEN /\ response' = [response EXCEPT ![c] = Content(JDict(r.resp))]
               /\ pc' = [pc EXCEPT ![c] = "done"]
               /\ jobs' = jobs
          ELSE /\ pc' = [pc EXCEPT ![c] = "get_scheduler"]
               /\ jobs' = [jobs EXCEPT
                             ![c] = [i \in 1..Len(req_list(c)) |-> NewJob]]
               /\ response' = response
    /\ UNCHANGED <<routes, scheduler, created, errReq, body, sched, job_list,
                   task_idx, resp_list, collected, finished, log,
                   background_tasks, scope, closed, shutdown_pc>>

\* Entrypoint.get_scheduler, up to the await of the scheduler factory
get_scheduler(c) ==
    /\ pc[c] = "get_scheduler"
    /\ IF scheduler # 0
       THEN /\ sched' = [sched EXCEPT ![c] = scheduler]
            /\ pc' = [pc EXCEPT ![c] = "dispatch"]
       ELSE /\ pc' = [pc EXCEPT ![c] = "factory"]
            /\ sched' = sched
    /\ UNCHANGED <<routes, scheduler, created, errReq, body, jobs, job_list,
                   task_idx, resp_list, collected, finished, response, log,
                   dependency_cache, resolver_runs,
                   background_tasks, scope, closed, shutdown_pc>>

\* the scheduler factory returns; get_scheduler stores and returns its result
scheduler_factory(c) ==
    /\ pc[c] = "factory"
    /\ created' = created + 1
    /\ scheduler' = created + 1
    /\ sched' = [sched EXCEPT ![c] = created + 1]
    /\ pc' = [pc EXCEPT ![c] = "dispatch"]
    /\ UNCHANGED <<routes, errReq, body, jobs, job_list, task_idx, resp_list,
                   collected, finished, response, log, dependency_cache,
                   resolver_runs,
                   background_tasks, scope, closed, shutdown_pc>>

\* a mutation of Spawn: the job of an item is awaited before the next item
\* is spawned
SpawnAwaited(c) ==
    /\ pc[c] = "dispatch"
    /\ Len(req_list(c)) > 1
    /\ \A k \in 1..Len(job_list[c]) : jobs[c][k].st = "done"
    /\ LET i == Len(job_list[c]) + 1
       IN /\ jobs' = [jobs EXCEPT ![c][i].st = "ready",
                                  ![c][i].scheduler = sched[c]]
          /\ job_list' = [job_list EXCEPT ![c] = Append(@, i)]
          /\ pc' = [pc EXCEPT ![c] =
                      IF i = Len(req_list(c)) THEN "collect" ELSE "dispatch"]
    /\ UNCHANGED <<routes, scheduler, created, errReq, body, sched, task_idx,
                   resp_list, collected, finished, response, log,
                   dependency_cache, resolver_runs,
                   background_tasks, scope, closed, shutdown_pc>>

\* one turn of the loop over req_list: scheduler.spawn starts the coroutine
\* of the next item as a job, and (req, task) is appended to job_list
Spawn(c) ==
    /\ pc[c] = "dispatch"
    /\ Len(req_list(c)) > 1
    /\ LET i == Len(job_list[c]) + 1
       IN /\ jobs' = [jobs EXCEPT ![c][i].st = "ready",
                                  ![c][i].scheduler = sched[c]]
          /\ job_list' = [job_list EXCEPT ![c] = Append(@, i)]
          /\ pc' = [pc EXCEPT ![c] =
                      IF i = Len(req_list(c)) THEN "collect" ELSE "dispatch"]
    /\ UNCHANGED <<routes, scheduler, created, errReq, body, sched, task_idx,
                   resp_list, collected, finished, response, log,
                   dependency_cache, resolver_runs,
                   background_tasks, scope, closed, shutdown_pc>>

\* a single item: its coroutine is the task, and runs when it is awaited
Inline(c) ==
    /\ pc[c] = "dispatch"
    /\ Len(req_list(c)) = 1
    /\ jobs' = [jobs EXCEPT ![c][1].st = "ready"]
    /\ job_list' = [job_list EXCEPT ![c] = <<1>>]
    /\ pc' = [pc EXCEPT ![c] = "collect"]
    /\ UNCHANGED <<routes, scheduler, created, errReq, body, sched, task_idx,
                   resp_list, collected, finished, response, log,
                   dependency_cache, resolver_runs,
                   background_tasks, scope, closed, shutdown_pc>>

---------------------------------------------------------------------------
(* EntrypointRoute._single_req_job and the MethodRoute it ends in.         *)

\* the literal error of an item that is no dict (DictError)
NotDictError ==
    BaseError("InvalidRequest",
              [errors |-> <<Err(<<>>, "type_error.dict",
                                "value is not a valid dict")>>])

\* the loop over self.entrypoint.routes: the position of the first route
\* whose path is self.path + '/' + method, 0 when the loop ends without one
RECURSIVE MatchFrom(_, _, _)
MatchFrom(rs, method, i) ==
    IF i > Len(rs) THEN 0
    ELSE IF rs[i].name = method THEN i
    ELSE MatchFrom(rs, method, i + 1)

\* a mutation of _single_req_job: the method is looked up before the
\* envelope is validated
_single_req_jobResolveFirst(rs, req) ==
    IF ~IsDict(req) THEN RaisedError(NotDictError)
    ELSE IF /\ HasKey(req, "method")
            /\ req.v.method.t = "str"
            /\ MatchFrom(rs, req.v.method.v, 1) = 0
    THEN RaisedError(BaseError("MethodNotFound", NoData))
    ELSE IF EnvelopeErrors(req) # <<>>
    THEN RaisedError(request_validation_error(EnvelopeErrors(req)))
    ELSE [kind |-> "route", route |-> MatchFrom(rs, req.v.method.v, 1)]

\* what _single_req_job does before it reaches a route: the error it raises,
\* or the route whose jsonrpc_app_content it awaits
_single_req_job(rs, req) ==
    IF ~IsDict(req) THEN RaisedError(NotDictError)
    ELSE IF EnvelopeErrors(req) # <<>>
    THEN RaisedError(request_validation_error(EnvelopeErrors(req)))
    ELSE LET r == MatchFrom(rs, req.v.method.v, 1)
         IN IF r = 0 THEN RaisedError(BaseError("MethodNotFound", NoData))
            ELSE [kind |-> "route", route |-> r]

\* jsonrpc_app_content around what jsonrpc_app did (r): a BaseError becomes
\* the error response of req; a success without 'id' in req is NoContent;
\* any other exception passes through
jsonrpc_app_content(req, r) ==
    IF r.kind = "Exception" THEN r
    ELSE LET resp == IF r.kind = "BaseError"
                     THEN get_resp(bind_req(r.error, req))
                     ELSE r.resp
         IN IF "error" \in DOMAIN resp \/ HasKey(req, "id")
            THEN Returned(resp)
            ELSE RaisedNoContent

\* a mutation of jsonrpc_app: InternalError carries the message of the cause
jsonrpc_appLeak(name, req, o) ==
    IF o.kind = "raise"
    THEN IF o.exc = "MyError"
         THEN RaisedError(BaseError("MyError", o.data))
         ELSE RaisedError(BaseError("InternalError", [details |-> o.msg]))
    ELSE LET resp == [jsonrpc |-> "2.0", result |-> o.value,
                      id |-> Get(req, "id")]
             response_data == serialize_response(name, resp)
         IN IF response_data.ok THEN Returned(response_data.value)
            ELSE RaisedOther("ValidationError")

\* a mutation of jsonrpc_app: an error kind the method does not declare is
\* treated like an unexpected exception
jsonrpc_appDeclaredOnly(name, req, o) ==
    IF o.kind = "raise"
    THEN IF o.exc = "MyError" /\ "MyError" \in declared_errors(name)
         THEN RaisedError(BaseError("MyError", o.data))
         ELSE RaisedError(BaseError("InternalError", NoData))
    ELSE LET resp == [jsonrpc |-> "2.0", result |-> o.value,
                      id |-> Get(req, "id")]
             response_data == serialize_response(name, resp)
         IN IF response_data.ok THEN Returned(response_data.value)
            ELSE RaisedOther("ValidationError")

\* jsonrpc_app after self.func ended as o: the try block maps an exception
\* that is no BaseError to InternalError(); a result is put into the
\* response and serialized, outside of the try block
jsonrpc_app(name, req, o) ==
    IF o.kind = "raise"
    THEN IF o.exc = "MyError"
         THEN RaisedError(BaseError("MyError", o.data))
         ELSE RaisedError(BaseError("InternalError", NoData))
    ELSE LET resp == [jsonrpc |-> "2.0", result |-> o.value,
                      id |-> Get(req, "id")]
             response_data == serialize_response(name, resp)
         IN IF response_data.ok THEN Returned(response_data.value)
            ELSE RaisedOther("ValidationError")

\* the coroutine of item i, which stands as job, ends with outcome out,
\* self.func having ended as o (or not having been called)
Finish(c, i, job, o, out) ==
    /\ jobs' = [jobs EXCEPT ![c][i] = [job EXCEPT !.st = "done", !.ended = o,
                                                  !.out = out]]
    /\ finished' = [finished EXCEPT ![c] = Append(@, i)]

\* the coroutine of item i starts: it copies the scope of the request,
\* validates the envelope, sets the path of the method in its copy and
\* looks for the route of the method, then awaits solve_dependencies in
\* jsonrpc_app
StartJob(c, i) ==
    /\ pc[c] # "absent"
    /\ i \in DOMAIN jobs[c]
    /\ jobs[c][i].st = "ready"
    /\ LET req == req_list(c)[i]
           r == _single_req_job(routes, req)
           item_scope == IF IsDict(req) /\ EnvelopeErrors(req) = <<>>
                         THEN [scope[c] EXCEPT
                                  !.path = Append(@, req.v.method.v)]
                         ELSE scope[c]
           job == [jobs[c][i] EXCEPT !.path = item_scope.path]
       IN IF r.kind = "route"
          THEN /\ jobs' = [jobs EXCEPT ![c][i] =
                              [job EXCEPT !.st = "deps", !.route = r.route]]
               /\ finished' = finished
          ELSE Finish(c, i, job, job.ended, r)
    /\ UNCHANGED <<routes, scheduler, created, errReq, body, pc, sched,
                   job_list, task_idx, resp_list, collected, response, log,
                   dependency_cache, resolver_runs,
                   background_tasks, scope, closed, shutdown_pc>>

\* a mutation of SolveDependencies: the dependencies of the function are
\* solved on dependency_cache itself, not on a copy of it
SolveDependenciesShared(c, i) ==
    /\ i \in DOMAIN jobs[c]
    /\ jobs[c][i].st = "deps"
    /\ LET req == req_list(c)[i]
           f == routes[jobs[c][i].route].func
           solved == SolveSubDependencies(Dependencies(f),
                                          dependency_cache[c],
                                          resolver_runs[c])
           values == [d \in Dependencies(f) |-> solved.cache[d]]
           errors == solve_dependencies(f, req)
       IN /\ resolver_runs' = [resolver_runs EXCEPT ![c] = solved.runs]
          /\ dependency_cache' = [dependency_cache EXCEPT ![c] = solved.cache]
          /\ IF errors # <<>>
             THEN /\ jobs' = [jobs EXCEPT
                        ![c][i].st = "done",
                        ![c][i].values = values,
                        ![c][i].cache = solved.cache,
                        ![c][i].out = jsonrpc_app_content(req,
                            RaisedError(request_validation_error(errors)))]
                  /\ finished' = [finished EXCEPT ![c] = Append(@, i)]
             ELSE /\ jobs' = [jobs EXCEPT ![c][i].st = "func",
                                          ![c][i].values = values,
                                          ![c][i].cache = solved.cache,
                                          ![c][i].called = TRUE]
                  /\ finished' = finished
    /\ UNCHANGED <<routes, scheduler, created, errReq, body, pc, sched,
                   job_list, task_idx, resp_list, collected, response, log,
                   background_tasks, scope, closed, shutdown_pc>>

\* solve_dependencies returns in jsonrpc_app, having solved the dependencies
\* of the function on a copy of dependency_cache: with errors, the item
\* ends with their error response; without, self.func is called
SolveDependencies(c, i) ==
    /\ i \in DOMAIN jobs[c]
    /\ jobs[c][i].st = "deps"
    /\ LET req == req_list(c)[i]
           f == routes[jobs[c][i].route].func
           solved == SolveSubDependencies(Dependencies(f),
                                          ItemCache(dependency_cache[c]),
                                          resolver_runs[c])
           values == [d \in Dependencies(f) |-> solved.cache[d]]
           errors == solve_dependencies(f, req)
       IN /\ resolver_runs' = [resolver_runs EXCEPT ![c] = solved.runs]
          /\ IF errors # <<>>
             THEN /\ jobs' = [jobs EXCEPT
                        ![c][i].st = "done",
                        ![c][i].values = values,
                        ![c][i].cache = solved.cache,
                        ![c][i].out = jsonrpc_app_content(req,
                            RaisedError(request_validation_error(errors)))]
                  /\ finished' = [finished EXCEPT ![c] = Append(@, i)]
             ELSE /\ jobs' = [jobs EXCEPT ![c][i].st = "func",
                                          ![c][i].values = values,
                                          ![c][i].cache = solved.cache,
                                          ![c][i].called = TRUE]
                  /\ finished' = finished
    /\ UNCHANGED <<routes, scheduler, created, errReq, body, pc, sched,
                   job_list, task_idx, resp_list, collected, response, log,
                   dependency_cache,
                   background_tasks, scope, closed, shutdown_pc>>

\* the functions that declare a parameter of type BackgroundTasks and add
\* one task to it before anything else
BackgroundTasksParam(f) == f \in {"echo", "crash"}

\* self.func runs and ends: a function with a BackgroundTasks parameter is
\* handed the background_tasks of the call and adds its task to it; an
\* unexpected exception is logged; the MyError instance is bound to req by
\* jsonrpc_app_content
HandlerReturns(c, i) ==
    /\ i \in DOMAIN jobs[c]
    /\ jobs[c][i].st = "func"
    /\ \E cause \in Causes :
        LET req == req_list(c)[i]
            name == routes[jobs[c][i].route].func
            o == func(name, req.v.params.v, cause)
            job == IF BackgroundTasksParam(name)
                   THEN [jobs[c][i] EXCEPT !.seen = background_tasks[c]]
                   ELSE jobs[c][i]
        IN /\ background_tasks' =
                  IF BackgroundTasksParam(name)
                  THEN [background_tasks EXCEPT ![c] = Append(@, i)]
                  ELSE background_tasks
           /\ log' = IF o.kind = "raise" /\ o.exc = "Exception"
                     THEN [log EXCEPT ![c] = @ \cup {o.msg}]
                     ELSE log
           /\ errReq' = IF o.kind = "raise" /\ o.exc = "MyError"
                        THEN req ELSE errReq
           /\ Finish(c, i, job, o,
                     jsonrpc_app_content(req, jsonrpc_app(name, req, o)))
    /\ UNCHANGED <<routes, scheduler, created, body, pc, sched, job_list,
                   task_idx, resp_list, collected, response, dependency_cache,
                   resolver_runs, scope, closed, shutdown_pc>>

---------------------------------------------------------------------------
(* EntrypointRoute._entrypoint: the loop over job_list and the payload.    *)

\* a mutation of NextTask: the tasks are taken in the order they end
NextTaskAsCompleted(c) ==
    IF Len(finished[c]) >= task_idx[c]
    THEN finished[c][task_idx[c]]
    ELSE CHOOSE i \in DOMAIN jobs[c] : jobs[c][i].st # "done"

\* the item of the (req, task) pair the loop over job_list stands at
NextTask(c) == job_list[c][task_idx[c]]

\* a mutation of Payload: an array with one surviving entry is unwrapped
PayloadUnwrapSingle(b, resps) ==
    IF resps = <<>> THEN NoContentResponse
    ELSE IF ~IsList(b) \/ Len(resps) = 1 THEN Content(JDict(resps[1]))
    ELSE Content(JList(resps))

\* a mutation of Payload: the payload depends on the scheduler the
\* Entrypoint holds when the call ends
PayloadOfScheduler(b, resps) ==
    IF resps = <<>> \/ scheduler > 1 THEN NoContentResponse
    ELSE IF ~IsList(b) THEN Content(JDict(resps[1]))
    ELSE Content(JList(resps))

\* the payload _entrypoint returns from resp_list, or NoContent
Payload(b, resps) ==
    IF resps = <<>> THEN NoContentResponse
    ELSE IF ~IsList(b) THEN Content(JDict(resps[1]))
    ELSE Content(JList(resps))

\* one turn of the loop over job_list: the awaited task has ended.  After
\* the last turn _entrypoint returns and jsonrpc_app_response answers.
Collect(c) ==
    /\ pc[c] = "collect"
    /\ LET i == NextTask(c)
           req == req_list(c)[i]
           out == jobs[c][i].out
           last == task_idx[c] = Len(job_list[c])
           resps == CASE out.kind = "return" -> Append(resp_list[c], out.resp)
                      [] out.kind = "BaseError" ->
                            Append(resp_list[c],
                                   get_resp(bind_req(out.error, req)))
                      [] OTHER -> resp_list[c]
       IN /\ jobs[c][i].st = "done"
          /\ IF out.kind = "Exception"
             THEN /\ response' = [response EXCEPT ![c] = ServerError]
                  /\ pc' = [pc EXCEPT ![c] = "done"]
                  /\ UNCHANGED <<resp_list, collected, task_idx>>
             ELSE /\ resp_list' = [resp_list EXCEPT ![c] = resps]
                  /\ collected' = [collected EXCEPT ![c] =
                        IF out.kind = "NoContent" THEN @ ELSE Append(@, i)]
                  /\ IF last
                     THEN /\ response' = [response EXCEPT
                                             ![c] = Payload(body[c], resps)]
                          /\ pc' = [pc EXCEPT ![c] = "done"]
                          /\ task_idx' = task_idx
                     ELSE /\ task_idx' = [task_idx EXCEPT ![c] = @ + 1]
                          /\ UNCHANGED <<response, pc>>
    /\ UNCHANGED <<routes, scheduler, created, errReq, body, sched, jobs,
                   job_list, finished, log, dependency_cache, resolver_runs,
                   background_tasks, scope, closed, shutdown_pc>>

Next ==
    \E c \in Calls :
        \/ ReadBody(c)
        \/ get_scheduler(c)
        \/ scheduler_factory(c)
        \/ Spawn(c)
        \/ Inline(c)
        \/ Collect(c)
        \/ \E i \in DOMAIN jobs[c] : StartJob(c, i)
        \/ \E i \in DOMAIN jobs[c] : SolveDependencies(c, i)
        \/ \E i \in DOMAIN jobs[c] : HandlerReturns(c, i)

Spec == Init /\ [][Next]_vars

\* the steps of jsonrpc_app_response and _entrypoint for call c
Dispatcher(c) ==
    \/ ReadBody(c)
    \/ get_scheduler(c)
    \/ scheduler_factory(c)
    \/ Spawn(c)
    \/ Inline(c)
    \/ Collect(c)

\* the steps of the coroutine of item i of call c
JobStep(c, i) ==
    \/ StartJob(c, i)
    \/ SolveDependencies(c, i)
    \/ HandlerReturns(c, i)

\* the event loop runs every coroutine that can go on: the scheduler
\* factory and every handler return, and every job that was spawned is run
FairSpec ==
    /\ Spec
    /\ \A c \in Calls : WF_vars(Dispatcher(c))
    /\ \A c \in Calls : \A i \in 1..(MaxBatch + 1) : WF_vars(JobStep(c, i))

---------------------------------------------------------------------------
(* Registration.  Entrypoint.add_method_route builds the route of a        *)
(* function under a name and appends it to the routes; nothing in it looks *)
(* at the routes that are there.  MethodRoute.__init__ refuses a function  *)
(* with a parameter named __request__.                                     *)

\* the parameters of the function of a method
Parameters(f) ==
    {ParamNames(f)[k] : k \in DOMAIN ParamNames(f)}
        \cup {QueryNames(f)[k] : k \in DOMAIN QueryNames(f)}

\* the functions and the names methods are added with
AddedFunctions == {"crash", "echo"}
AddedNames == {"echo", "nope"}

add_method_route(f, name) ==
    /\ Len(routes) < MaxRoutes
    /\ "__request__" \notin Parameters(f)
    /\ routes' = Append(routes, Route(name, f))
    /\ UNCHANGED <<scheduler, created, errReq, body, pc, sched, jobs, job_list,
                   task_idx, resp_list, collected, finished, response, log,
                   dependency_cache, resolver_runs,
                   background_tasks, scope, closed, shutdown_pc>>

\* one call is served by an Entrypoint to which methods are still added
StartupInit == Init /\ pc[2] = "absent"

StartupNext ==
    \/ \E f \in AddedFunctions, name \in AddedNames : add_method_route(f, name)
    \/ Next

StartupSpec == StartupInit /\ [][StartupNext]_vars

---------------------------------------------------------------------------
(* Entrypoint.shutdown, the handler of the application's shutdown event.   *)

\* Entrypoint.shutdown up to its await: without a scheduler it returns at
\* once; with one it calls close() on self.scheduler, which marks that
\* scheduler closed, and awaits it
shutdown ==
    /\ shutdown_pc.st = "idle"
    /\ IF scheduler = 0
       THEN /\ shutdown_pc' = [st |-> "done", scheduler |-> 0]
            /\ closed' = closed
       ELSE /\ shutdown_pc' = [st |-> "closing", scheduler |-> scheduler]
            /\ closed' = closed \cup {scheduler}
    /\ UNCHANGED <<routes, scheduler, created, errReq, body, pc, sched, jobs,
                   job_list, task_idx, resp_list, collected, finished,
                   response, log, dependency_cache, resolver_runs,
                   background_tasks, scope>>

\* close() of the scheduler returns, and with it Entrypoint.shutdown
scheduler_close ==
    /\ shutdown_pc.st = "closing"
    /\ shutdown_pc' = [shutdown_pc EXCEPT !.st = "done"]
    /\ UNCHANGED <<routes, scheduler, created, errReq, body, pc, sched, jobs,
                   job_list, task_idx, resp_list, collected, finished,
                   response, log, dependency_cache, resolver_runs,
                   background_tasks, scope, closed>>

\* the calls up to the scheduler they obtain, and the shutdown of the
\* application, which takes up no call once its shutdown handlers run
ShutdownNext ==
    \/ shutdown
    \/ scheduler_close
    \/ \E c \in Calls : shutdown_pc.st = "idle" /\ ReadBody(c)
    \/ \E c \in Calls : get_scheduler(c)
    \/ \E c \in Calls : scheduler_factory(c)

ShutdownSpec == Init /\ [][ShutdownNext]_vars

---------------------------------------------------------------------------
(* Vocabulary of the claims.                                               *)

\* the id of a raw item: null when it is no object or has no id
RawId(req) == IF IsDict(req) THEN Get(req, "id") ELSE JNull

\* the raw item is an object with the key id
HasId(req) == IsDict(req) /\ HasKey(req, "id")

\* the coroutine of item i of call c has ended
Ended(c, i) == i \in DOMAIN jobs[c] /\ jobs[c][i].st = "done"

\* the item ended in an error of any kind
Failed(c, i) ==
    /\ Ended(c, i)
    /\ \/ jobs[c][i].out.kind \in {"BaseError", "Exception"}
       \/ jobs[c][i].out.kind = "return" /\ "error" \in DOMAIN jobs[c][i].out.resp

\* the entry an ended item hands to the collector
EntryOf(c, i) ==
    IF jobs[c][i].out.kind = "return" THEN jobs[c][i].out.resp
    ELSE get_resp(bind_req(jobs[c][i].out.error, req_list(c)[i]))

RECURSIVE SurvivorsFrom(_, _)
\* the entries of the items i, i+1, ... that do not end as NoContent
SurvivorsFrom(c, i) ==
    IF i > Len(jobs[c]) THEN <<>>
    ELSE (IF jobs[c][i].out.kind = "NoContent" THEN <<>> ELSE <<EntryOf(c, i)>>)
         \o SurvivorsFrom(c, i + 1)

\* the call was dispatched and _entrypoint returned or raised NoContent
Answered(c) ==
    pc[c] = "done" /\ jobs[c] # <<>> /\ response[c].status # "ServerError"

---------------------------------------------------------------------------
(* C1: in every state, the entries collected for a call come from items in *)
(* increasing input position, each is the entry of its item, and the array *)
(* answered to a non-empty array body is exactly that list, whatever the   *)
(* order in which the items ended.                                         *)
InputOrder ==
    \A c \in Calls :
        /\ Len(collected[c]) = Len(resp_list[c])
        /\ \A k \in 1..Len(collected[c]) :
              resp_list[c][k] = EntryOf(c, collected[c][k])
        /\ \A k1, k2 \in 1..Len(collected[c]) :
              k1 < k2 => collected[c][k1] < collected[c][k2]
        /\ (response[c].status = "Content" /\ IsList(body[c]) /\ body[c].v # <<>>)
              => response[c].content = JList(resp_list[c])

\* a batch of two whose second item ended first and whose two different
\* entries are answered in input order
InputOrderWitness ==
    \E c \in Calls :
        /\ IsList(body[c]) /\ Len(body[c].v) = 2
        /\ finished[c] = <<2, 1>>
        /\ response[c].status = "Content"
        /\ collected[c] = <<1, 2>>
        /\ Len(response[c].content.v) = 2
        /\ response[c].content.v[1] # response[c].content.v[2]

(* C2: once a dispatched call has ended, an item has an entry in the       *)
(* response if and only if it failed or its raw request holds the key id.  *)
EntryIffErrorOrId ==
    \A c \in Calls :
        (pc[c] = "done" /\ jobs[c] # <<>>) =>
            \A i \in DOMAIN jobs[c] :
                (/\ response[c].status = "Content"
                 /\ \E k \in 1..Len(collected[c]) : collected[c][k] = i)
                <=> (Failed(c, i) \/ HasId(req_list(c)[i]))

(* C3: when the dispatch of a call has returned, there is no content if    *)
(* and only if no entry survives; otherwise the content is the entry       *)
(* itself for a body that is no array, and the array of the surviving      *)
(* entries for an array body, also when only one survives.                 *)
PayloadShape ==
    \A c \in Calls :
        Answered(c) =>
            LET s == SurvivorsFrom(c, 1)
            IN /\ (s = <<>>) <=> (response[c] = NoContentResponse)
               /\ (s # <<>>) =>
                    /\ response[c].status = "Content"
                    /\ IF IsList(body[c])
                       THEN response[c].content = JList(s)
                       ELSE Len(s) = 1 /\ response[c].content = JDict(s[1])

\* a batch of two of which one entry survives, answered as an array of one
PayloadShapeWitness ==
    \E c \in Calls :
        /\ Answered(c)
        /\ IsList(body[c]) /\ Len(body[c].v) = 2
        /\ Len(SurvivorsFrom(c, 1)) = 1
        /\ response[c].status = "Content"
        /\ response[c].content.t = "list"
        /\ Len(response[c].content.v) = 1

(* C4: every entry carries the id of its own raw item, type included (null *)
(* when the item is no object or has no id): the response an item returns, *)
(* every entry of resp_list and every entry of the content, also when the  *)
(* handlers of two items raise the same MyError instance.                  *)
IdEcho ==
    \A c \in Calls :
        /\ \A i \in DOMAIN jobs[c] :
              (Ended(c, i) /\ jobs[c][i].out.kind = "return")
                  => jobs[c][i].out.resp.id = RawId(req_list(c)[i])
        /\ \A k \in 1..Len(resp_list[c]) :
              resp_list[c][k].id = RawId(req_list(c)[collected[c][k]])
        /\ Answered(c) /\ response[c].status = "Content" =>
              IF IsList(body[c])
              THEN \A k \in 1..Len(response[c].content.v) :
                      response[c].content.v[k].id
                          = RawId(req_list(c)[collected[c][k]])
              ELSE response[c].content.v.id = RawId(body[c])

\* a batch of two whose handlers both raised the MyError instance, the
\* second first, answered with the id of each item
IdEchoWitness ==
    \E c \in Calls :
        /\ Answered(c)
        /\ IsList(body[c]) /\ Len(body[c].v) = 2
        /\ \A i \in {1, 2} : /\ jobs[c][i].ended.kind = "raise"
                             /\ jobs[c][i].ended.exc = "MyError"
        /\ finished[c] = <<2, 1>>
        /\ RawId(body[c].v[1]) # RawId(body[c].v[2])
        /\ response[c].content.v[1].id = RawId(body[c].v[1])
        /\ response[c].content.v[2].id = RawId(body[c].v[2])

\* the ParseError response
ParseErrorResponse ==
    Content(JDict([jsonrpc |-> "2.0",
                   error |-> [code |-> -32700, message |-> "Parse error"],
                   id |-> JNull]))

(* C5: a call whose body is no JSON never gets past the reading of the     *)
(* body: it has no item, no job, no scheduler, nothing ends for it, and    *)
(* when it has ended its response is the one ParseError object.            *)
ParseErrorOnly ==
    \A c \in Calls :
        (pc[c] # "absent" /\ body[c].t = "invalid") =>
            /\ pc[c] \in {"received", "done"}
            /\ jobs[c] = <<>> /\ job_list[c] = <<>> /\ finished[c] = <<>>
            /\ sched[c] = 0
            /\ pc[c] = "done" => response[c] = ParseErrorResponse

\* a call whose body is no JSON has been answered
ParseErrorOnlyWitness ==
    \E c \in Calls :
        /\ body[c].t = "invalid" /\ pc[c] = "done"
        /\ response[c].status = "Content"

\* the response to an empty array
EmptyArrayResponse ==
    Content(JDict([jsonrpc |-> "2.0",
                   error |-> [code |-> -32600, message |-> "Invalid Request",
                              data |-> [errors |->
                                  <<[loc |-> <<>>, type |-> "value_error.empty",
                                     msg |-> "rpc call with an empty array"]>>]],
                   id |-> JNull]))

(* C6: a call whose body is an empty array never gets past the reading of  *)
(* the body (no item, no job, no scheduler), and when it has ended its     *)
(* response is the single InvalidRequest object with the literal data.     *)
EmptyArrayInvalidRequest ==
    \A c \in Calls :
        (IsList(body[c]) /\ body[c].v = <<>>) =>
            /\ pc[c] \in {"received", "done"}
            /\ jobs[c] = <<>> /\ job_list[c] = <<>> /\ finished[c] = <<>>
            /\ sched[c] = 0
            /\ pc[c] = "done" => response[c] = EmptyArrayResponse

\* a call whose body is an empty array has been answered
EmptyArrayWitness ==
    \E c \in Calls :
        /\ IsList(body[c]) /\ body[c].v = <<>> /\ pc[c] = "done"
        /\ response[c].content.t = "dict"

\* the raw item is a valid envelope: an object with no key but the four
\* fields, jsonrpc "2.0" when given, a str method, a dict params, and an id
\* that is a str, an int or null when given
ValidEnvelope(req) ==
    /\ IsDict(req)
    /\ DOMAIN req.v \subseteq {"jsonrpc", "id", "method", "params"}
    /\ HasKey(req, "jsonrpc") => req.v.jsonrpc = JStr("2.0")
    /\ HasKey(req, "method") /\ req.v.method.t = "str"
    /\ HasKey(req, "params") /\ req.v.params.t = "dict"
    /\ HasKey(req, "id") => req.v.id.t \in {"str", "int", "null"}

\* the method of a valid envelope is the name of no route
UnknownMethod(req) ==
    \A r \in 1..Len(routes) : routes[r].name # req.v.method.v

\* the ended item yields an error of this code
Yields(c, i, code) ==
    /\ jobs[c][i].out.kind \in {"return", "BaseError"}
    /\ "error" \in DOMAIN EntryOf(c, i)
    /\ EntryOf(c, i).error.code = code

(* C7: an ended item yields MethodNotFound exactly when its envelope is    *)
(* valid and its method is the name of no route, whatever its params; its  *)
(* handler was not called; and its entry, once collected, has code -32601. *)
MethodNotFoundExactly ==
    \A c \in Calls : \A i \in DOMAIN jobs[c] :
        Ended(c, i) =>
            LET req == req_list(c)[i]
            IN /\ Yields(c, i, -32601)
                    <=> (ValidEnvelope(req) /\ UnknownMethod(req))
               /\ Yields(c, i, -32601)
                    => ~jobs[c][i].called /\ jobs[c][i].route = 0
               /\ \A k \in 1..Len(collected[c]) :
                     collected[c][k] = i =>
                        (Yields(c, i, -32601)
                            <=> /\ "error" \in DOMAIN resp_list[c][k]
                                /\ resp_list[c][k].error.code = -32601)

\* an item with an unknown method ended as MethodNotFound without a call of
\* a handler, and its entry is in the content
MethodNotFoundWitness ==
    \E c \in Calls : \E i \in DOMAIN jobs[c] :
        /\ Ended(c, i) /\ Yields(c, i, -32601)
        /\ ~jobs[c][i].called
        /\ Answered(c) /\ response[c].status = "Content"
        /\ \E k \in 1..Len(collected[c]) : collected[c][k] = i

\* the error is located inside params
InsideParams(e) ==
    Len(e.loc) > 3 /\ SubSeq(e.loc, 1, 3) = <<"body", "__request__", "params">>

\* the envelope-level errors among the reported ones, in their order
EnvelopeLevel(errors) ==
    LET Outside(e) == ~InsideParams(e) IN SelectSeq(errors, Outside)

\* loc is the end of whole
EndOf(loc, whole) ==
    Len(loc) <= Len(whole)
    /\ loc = SubSeq(whole, Len(whole) - Len(loc) + 1, Len(whole))

\* what the validation of an ended item reported: the errors of the
\* envelope, or, for an item that reached a route, those of its dependencies
Reported(c, i) ==
    LET req == req_list(c)[i]
    IN IF ~IsDict(req) THEN <<>>
       ELSE IF jobs[c][i].route = 0 THEN EnvelopeErrors(req)
       ELSE solve_dependencies(routes[jobs[c][i].route].func, req)

(* C8: an ended item whose validation reported errors yields               *)
(* InvalidRequest with exactly the envelope-level errors when there is     *)
(* one, also when errors inside params were reported with them; it yields  *)
(* InvalidParams when there is none, with every error inside params at its *)
(* location relative to params.                                            *)
ValidationPrecedence ==
    \A c \in Calls : \A i \in DOMAIN jobs[c] :
      /\ (Ended(c, i) /\ Yields(c, i, -32602)) =>
            /\ ~jobs[c][i].called
            /\ Reported(c, i) # <<>>
            /\ EnvelopeLevel(Reported(c, i)) = <<>>
      /\
        (Ended(c, i) /\ ~jobs[c][i].called /\ Reported(c, i) # <<>>) =>
            LET errors == Reported(c, i)
                env == EnvelopeLevel(errors)
                got == EntryOf(c, i).error
            IN IF env # <<>>
               THEN /\ got.code = -32600
                    /\ Len(got.data.errors) = Len(env)
                    /\ \A k \in 1..Len(env) :
                          /\ got.data.errors[k].type = env[k].type
                          /\ got.data.errors[k].msg = env[k].msg
                          /\ EndOf(got.data.errors[k].loc, env[k].loc)
                          /\ (env[k].loc[1] # "body"
                                => got.data.errors[k].loc = env[k].loc)
               ELSE /\ got.code = -32602
                    /\ Len(got.data.errors) = Len(errors)
                    /\ \A k \in 1..Len(errors) :
                          /\ got.data.errors[k].type = errors[k].type
                          /\ <<"body", "__request__", "params">>
                                \o got.data.errors[k].loc = errors[k].loc

\* an item for which an envelope-level error and an error inside params
\* were reported ended as InvalidRequest with the envelope-level error only
ValidationPrecedenceWitness ==
    \E c \in Calls : \E i \in DOMAIN jobs[c] :
        /\ Ended(c, i) /\ jobs[c][i].route # 0 /\ ~jobs[c][i].called
        /\ \E k \in 1..Len(Reported(c, i)) : InsideParams(Reported(c, i)[k])
        /\ Len(EnvelopeLevel(Reported(c, i))) = 1
        /\ Yields(c, i, -32600)
        /\ Len(EntryOf(c, i).error.data.errors) = 1
        /\ Answered(c)

\* the handler of the ended item raised an exception that is no BaseError
Crashed(c, i) ==
    /\ Ended(c, i)
    /\ jobs[c][i].ended.kind = "raise"
    /\ jobs[c][i].ended.exc = "Exception"

\* the InternalError entry of an item
InternalErrorEntry(req) ==
    [jsonrpc |-> "2.0",
     error |-> [code |-> -32603, message |-> "Internal error"],
     id |-> RawId(req)]

(* C9: an item whose handler raised something that is no BaseError returns *)
(* the InternalError entry of its id, without data; and two calls with the *)
(* same body that have ended have the same response, whatever the causes   *)
(* of the failures of their handlers.                                      *)
InternalErrorOpaque ==
    /\ \A c \in Calls : \A i \in DOMAIN jobs[c] :
          Crashed(c, i) =>
              jobs[c][i].out = Returned(InternalErrorEntry(req_list(c)[i]))
    /\ \A c1, c2 \in Calls :
          (pc[c1] = "done" /\ pc[c2] = "done" /\ body[c1] = body[c2])
              => response[c1] = response[c2]

\* two calls with the same body whose handlers failed for different causes
\* have ended with the same InternalError content
InternalErrorWitness ==
    /\ pc[1] = "done" /\ pc[2] = "done" /\ body[1] = body[2]
    /\ Crashed(1, 1) /\ Crashed(2, 1)
    /\ jobs[1][1].ended.msg # jobs[2][1].ended.msg
    /\ log[1] # log[2]
    /\ response[1].status = "Content"
    /\ response[1] = response[2]

(* C10: once a dispatched call has ended, it has not ended with a server   *)
(* error, and every item of it that failed has an error entry with its id  *)
(* in the response.                                                        *)
EveryFailureIsAnEntry ==
    \A c \in Calls :
        (pc[c] = "done" /\ jobs[c] # <<>>) =>
            /\ response[c].status \in {"Content", "NoContent"}
            /\ \A i \in DOMAIN jobs[c] :
                  Failed(c, i) =>
                      \E k \in 1..Len(collected[c]) :
                          /\ collected[c][k] = i
                          /\ "error" \in DOMAIN resp_list[c][k]
                          /\ resp_list[c][k].id = RawId(req_list(c)[i])

\* the call is a batch of more than one item that was dispatched
IsBatch(c) == jobs[c] # <<>> /\ Len(req_list(c)) > 1

\* the outcome of the coroutine of an item that is processed with no sibling
AloneOutcome(req) ==
    LET r == _single_req_job(routes, req)
    IN IF r.kind # "route" THEN r
       ELSE LET f == routes[r.route].func
                errs == solve_dependencies(f, req)
                o == func(f, req.v.params.v, CHOOSE x \in Causes : TRUE)
            IN IF errs # <<>>
               THEN jsonrpc_app_content(req,
                        RaisedError(request_validation_error(errs)))
               ELSE jsonrpc_app_content(req, jsonrpc_app(f, req, o))

\* the ended item hands an entry to the collector
Survives(c, i) == Ended(c, i) /\ jobs[c][i].out.kind \in {"return", "BaseError"}

(* C11: in a batch of more than one item, every item that has ended has    *)
(* the outcome it has when it is processed alone, whatever its siblings    *)
(* did; and once the call has ended, every item has ended or is still      *)
(* free to run, and the response is a content that holds the entry of      *)
(* every item that survives.                                               *)
SiblingsUnaffected ==
    \A c \in Calls :
        IsBatch(c) =>
            /\ \A i \in DOMAIN jobs[c] :
                  Ended(c, i) => jobs[c][i].out = AloneOutcome(req_list(c)[i])
            /\ pc[c] = "done" =>
                  \A i \in DOMAIN jobs[c] :
                      Survives(c, i) =>
                          /\ response[c].status = "Content"
                          /\ \E k \in 1..Len(response[c].content.v) :
                                response[c].content.v[k] = EntryOf(c, i)

\* the handler of the ended item raised a MyError
RaisedMyError(c, i) ==
    /\ Ended(c, i)
    /\ jobs[c][i].ended.kind = "raise"
    /\ jobs[c][i].ended.exc = "MyError"

\* the entry of an item whose handler raised a MyError with this data
MyErrorEntry(req, data) ==
    [jsonrpc |-> "2.0",
     error |-> IF DOMAIN data = {}
               THEN [code |-> 5000, message |-> "My error"]
               ELSE [code |-> 5000, message |-> "My error", data |-> data],
     id |-> RawId(req)]

(* C12: an item whose handler raised a MyError returns the error entry     *)
(* with the CODE and MESSAGE of MyError, the data of the raised instance   *)
(* (no data key when it is empty) and the id of the item, whether or not   *)
(* the method declares MyError; and that is the entry collected for it.    *)
ErrorFidelity ==
    \A c \in Calls : \A i \in DOMAIN jobs[c] :
        RaisedMyError(c, i) =>
            LET want == MyErrorEntry(req_list(c)[i], jobs[c][i].ended.data)
            IN /\ jobs[c][i].out = Returned(want)
               /\ \A k \in 1..Len(collected[c]) :
                     collected[c][k] = i => resp_list[c][k] = want

\* a batch answered with the entries of an item whose method declares
\* MyError and raised it with data, and of an item whose method does not
\* declare it and raised it without data
ErrorFidelityWitness ==
    \E c \in Calls : \E i, j \in DOMAIN jobs[c] :
        /\ Answered(c) /\ response[c].status = "Content"
        /\ RaisedMyError(c, i) /\ RaisedMyError(c, j)
        /\ "MyError" \in declared_errors(routes[jobs[c][i].route].func)
        /\ "MyError" \notin declared_errors(routes[jobs[c][j].route].func)
        /\ "data" \in DOMAIN EntryOf(c, i).error
        /\ "data" \notin DOMAIN EntryOf(c, j).error
        /\ \E k1, k2 \in 1..Len(collected[c]) :
              collected[c][k1] = i /\ collected[c][k2] = j

(* C13: at most one scheduler is ever created for the Entrypoint, and all  *)
(* calls that obtained a scheduler obtained the same one, the one the      *)
(* Entrypoint holds.                                                       *)
OneScheduler ==
    /\ created <= 1
    /\ \A c \in Calls : sched[c] # 0 => sched[c] = scheduler

Resolved(c) == pc[c] \notin {"absent", "received"}

(* C15: a call that was taken up has run the context resolver exactly once *)
(* (a call that was not has not run it), whatever its body holds and       *)
(* however many of its items have solved their own dependencies; and every *)
(* item whose dependencies were solved got, for each shared dependency it  *)
(* declares, the value that one run put into dependency_cache.             *)
ContextOnce ==
    \A c \in Calls :
        /\ resolver_runs[c]["get_context"] = IF Resolved(c) THEN 1 ELSE 0
        /\ Resolved(c) =>
              /\ DOMAIN dependency_cache[c]
                    = DOMAIN NewCache \cup EntrypointDependencies
              /\ \A d \in EntrypointDependencies : dependency_cache[c][d] = 1
        /\ \A i \in DOMAIN jobs[c] :
              (jobs[c][i].route # 0 /\ jobs[c][i].st \in {"func", "done"}) =>
                  LET f == routes[jobs[c][i].route].func
                  IN /\ DOMAIN jobs[c][i].values = Dependencies(f)
                     /\ \A d \in Dependencies(f) \cap EntrypointDependencies :
                           jobs[c][i].values[d] = dependency_cache[c][d]

\* a batch of two has ended, the handlers of both items were called with
\* the shared context, and the resolver ran once
ContextOnceWitness ==
    \E c \in Calls :
        /\ pc[c] = "done" /\ IsBatch(c) /\ Len(jobs[c]) = 2
        /\ resolver_runs[c]["get_context"] = 1
        /\ \A i \in {1, 2} :
              /\ jobs[c][i].called
              /\ "get_context" \in DOMAIN jobs[c][i].values
              /\ jobs[c][i].values["get_context"]
                    = dependency_cache[c]["get_context"]

(* C16: no step of a dispatch changes the routes, and two calls with the   *)
(* same body that have ended have collected the same entries and have the  *)
(* same response, whichever scheduler each of them ran on.                 *)
Idempotent ==
    /\ routes = [r \in DOMAIN RegisteredMethods |->
                    Route(RegisteredMethods[r], RegisteredMethods[r])]
    /\ \A c1, c2 \in Calls :
          (pc[c1] = "done" /\ pc[c2] = "done" /\ body[c1] = body[c2]) =>
              /\ resp_list[c1] = resp_list[c2]
              /\ response[c1] = response[c2]

\* two calls with the same valid request have ended with the same result,
\* each on a scheduler of its own
IdempotentWitness ==
    /\ pc[1] = "done" /\ pc[2] = "done" /\ body[1] = body[2]
    /\ ValidEnvelope(body[1]) /\ HasId(body[1])
    /\ sched[1] # sched[2]
    /\ response[1].status = "Content"
    /\ "result" \in DOMAIN response[1].content.v
    /\ response[2] = response[1]

\* the request of an item that reached a route holds every parameter the
\* function of the route requires
ParamsValid(c, i) ==
    LET f == routes[jobs[c][i].route].func
    IN /\ \A k \in DOMAIN ParamNames(f) :
             ParamNames(f)[k] \in DOMAIN req_list(c)[i].v.params.v
       /\ \A k \in DOMAIN QueryNames(f) : QueryNames(f)[k] \in QueryString

(* C17: the handler of an item was called only if the envelope of the item *)
(* is valid, the route found for it is a route of its method and the       *)
(* validation of its params reported nothing; an item stands between the   *)
(* resolution and the validation of the params with a valid envelope, a    *)
(* route and a handler that was not called; and an item that ended at the  *)
(* envelope, at the resolution or at the params ended with the error of    *)
(* the first of these stages it fails, its handler never called.           *)
HandlerAfterStages ==
    \A c \in Calls : \A i \in DOMAIN jobs[c] :
        LET req == req_list(c)[i]
            j == jobs[c][i]
        IN /\ j.called =>
                /\ ValidEnvelope(req)
                /\ j.route # 0
                /\ routes[j.route].name = req.v.method.v
                /\ ParamsValid(c, i)
           /\ j.st \in {"new", "ready"} => ~j.called /\ j.route = 0
           /\ j.st = "deps" => ~j.called /\ ValidEnvelope(req) /\ j.route # 0
           /\ j.st = "func" => j.called /\ j.ended.kind = "none"
           /\ ~j.called => j.ended.kind = "none"
           /\ Ended(c, i) =>
                /\ ~ValidEnvelope(req) =>
                      ~j.called /\ j.route = 0 /\ Yields(c, i, -32600)
                /\ ValidEnvelope(req) /\ UnknownMethod(req) =>
                      ~j.called /\ j.route = 0 /\ Yields(c, i, -32601)
                /\ (j.route # 0 /\ ~ParamsValid(c, i)) =>
                      /\ ~j.called
                      /\ Yields(c, i, -32600) \/ Yields(c, i, -32602)
                /\ j.called <=> j.ended.kind # "none"

\* a batch has ended in which the handler of one item was called and ended
\* and the params of another item, which reached a route, were refused
HandlerAfterStagesWitness ==
    \E c \in Calls : \E i, k \in DOMAIN jobs[c] :
        /\ pc[c] = "done" /\ IsBatch(c)
        /\ Ended(c, i) /\ jobs[c][i].called /\ jobs[c][i].ended.kind = "return"
        /\ Ended(c, k) /\ jobs[c][k].route # 0 /\ ~jobs[c][k].called
        /\ Yields(c, k, -32602)

(* C18: when the call of a batch of more than one item has ended, in       *)
(* whatever way, the job of every item of the batch has ended.             *)
JoinsAllJobs ==
    \A c \in Calls :
        (IsBatch(c) /\ pc[c] = "done") =>
            \A i \in DOMAIN jobs[c] : jobs[c][i].st = "done"

(* C19: while a batch of more than one item is being spawned, the next     *)
(* spawn waits for nothing and no outcome has been awaited; once the       *)
(* dispatcher awaits outcomes, every item of the batch is a job on the     *)
(* scheduler of the call, in input order; the single item of a body with   *)
(* one item is on no scheduler and runs only once it is awaited.           *)
SpawnAllThenWait ==
    \A c \in Calls :
        /\ (pc[c] = "dispatch" /\ Len(req_list(c)) > 1) =>
              /\ ENABLED Spawn(c)
              /\ resp_list[c] = <<>> /\ task_idx[c] = 1
              /\ response[c] = NoResponse
        /\ IsBatch(c) =>
              /\ \A i \in DOMAIN jobs[c] :
                    /\ jobs[c][i].st = "new" <=> i > Len(job_list[c])
                    /\ jobs[c][i].scheduler
                          = IF i > Len(job_list[c]) THEN 0 ELSE sched[c]
              /\ pc[c] \in {"collect", "done"} =>
                    /\ sched[c] # 0
                    /\ Len(job_list[c]) = Len(req_list(c))
                    /\ \A k \in 1..Len(job_list[c]) : job_list[c][k] = k
        /\ (jobs[c] # <<>> /\ Len(req_list(c)) = 1) =>
              /\ jobs[c][1].scheduler = 0
              /\ jobs[c][1].st # "new" =>
                    pc[c] \in {"collect", "done"} /\ job_list[c] = <<1>>

\* the second item of a batch of two has ended while the first, which has
\* started, is still running and no outcome has been collected
SpawnAllThenWaitWitness ==
    \E c \in Calls :
        /\ IsBatch(c) /\ Len(jobs[c]) = 2
        /\ pc[c] = "collect" /\ task_idx[c] = 1
        /\ finished[c] = <<2>>
        /\ jobs[c][1].st \in {"deps", "func"}
        /\ jobs[c][1].scheduler # 0 /\ jobs[c][2].scheduler # 0

(* C20: every call that is taken up eventually ends, and ends as a         *)
(* response with content (a payload, or the top-level error of a body that *)
(* is no JSON or an empty array) or as a response without content.         *)
EndsInTerminalState ==
    \A c \in Calls :
        (pc[c] = "received")
            ~> (pc[c] = "done" /\ response[c].status \in {"Content", "NoContent"})

(* C21: the queue of background tasks that the handler of an item of a     *)
(* batch is given holds no task that the handler of a sibling item added.  *)
OwnBackgroundTasks ==
    \A c \in Calls :
        IsBatch(c) =>
            \A i \in DOMAIN jobs[c] :
                \A k \in DOMAIN jobs[c][i].seen : jobs[c][i].seen[k] = i

\* the handler of item i of call c has added its background task
Scheduled(c, i) == \E k \in DOMAIN background_tasks[c] : background_tasks[c][k] = i

(* C22: when a call has ended, every background task that the handler of   *)
(* one of its items added is in the background of the response of the      *)
(* call, whatever the item ended as.                                       *)
AllTasksAttached ==
    \A c \in Calls :
        pc[c] = "done" =>
            \A i \in DOMAIN jobs[c] :
                Scheduled(c, i) =>
                    \E k \in DOMAIN background(c) : background(c)[k] = i

\* the dependencies of item i of call c were solved
Solved(c, i) == jobs[c][i].route # 0 /\ jobs[c][i].st \in {"func", "done"}

(* C23: the scope of the request of a call is never changed and, once the  *)
(* context resolver has filled it, neither is dependency_cache; an item    *)
(* whose dependencies were solved holds a cache that is dependency_cache   *)
(* and the function's own dependencies, two such items of a call never     *)
(* hold the same value for a dependency that is not shared; and the path   *)
(* an item routed on is the path of the entrypoint before the envelope is  *)
(* valid and that path with its own method after.                          *)
NoSharedMutation ==
    \A c \in Calls :
        /\ scope[c] = [path |-> EntrypointPath]
        /\ dependency_cache[c] =
              IF Resolved(c)
              THEN SolveSubDependencies(EntrypointDependencies, NewCache,
                                        [d \in DependencyNames |-> 0]).cache
              ELSE <<>>
        /\ \A i \in DOMAIN jobs[c] :
              LET j == jobs[c][i]
                  req == req_list(c)[i]
              IN /\ j.path = CASE j.st \in {"new", "ready"} -> <<>>
                               [] ValidEnvelope(req) ->
                                     Append(EntrypointPath, req.v.method.v)
                               [] OTHER -> EntrypointPath
                 /\ Solved(c, i) =>
                       LET f == routes[j.route].func
                       IN /\ DOMAIN j.cache
                                = DOMAIN dependency_cache[c] \cup Dependencies(f)
                          /\ \A d \in DOMAIN dependency_cache[c] :
                                j.cache[d] = dependency_cache[c][d]
                          /\ \A k \in DOMAIN jobs[c] \ {i} :
                                Solved(c, k) =>
                                    \A d \in (DOMAIN j.cache
                                              \cap DOMAIN jobs[c][k].cache)
                                             \ DOMAIN dependency_cache[c] :
                                        j.cache[d] # jobs[c][k].cache[d]

\* a batch of two has ended whose items, of different methods, each solved
\* a dependency of their own, while the cache and the scope of the call
\* hold what they held before the items ran
NoSharedMutationWitness ==
    \E c \in Calls :
        /\ pc[c] = "done" /\ IsBatch(c) /\ Len(jobs[c]) = 2
        /\ Solved(c, 1) /\ Solved(c, 2)
        /\ jobs[c][1].path # jobs[c][2].path
        /\ "get_session" \in DOMAIN jobs[c][1].cache
        /\ "get_session" \in DOMAIN jobs[c][2].cache
        /\ jobs[c][1].cache["get_session"] # jobs[c][2].cache["get_session"]
        /\ "get_session" \notin DOMAIN dependency_cache[c]
        /\ scope[c].path = EntrypointPath

(* C24: once shutdown has returned, every scheduler the scheduler factory *)
(* has made for the Entrypoint is closed, whichever call it was made for   *)
(* and whenever; and if none was made, none is closed.                     *)
ShutdownClosesAll ==
    shutdown_pc.st = "done" =>
        /\ \A s \in 1..created : s \in closed
        /\ created = 0 => closed = {}

====
